---- MODULE Spec2Model ----
(***************************************************************************)
(* Model of the news-report pipeline of news_workflow.py:                  *)
(*   - run_analysis_and_synthesis_async / process_article_task: the        *)
(*     fan-out of per-item pipelines under asyncio.Semaphore(10), the      *)
(*     fan-in loop over asyncio.as_completed, and the synthesis call;      *)
(*   - filter_news_by_date: the publish-date filter;                       *)
(*   - synthesize_final_report: the budgeted concatenation of summaries;   *)
(*   - extract_keywords_with_gemini, search_news_naver,                    *)
(*     extract_news_source and save_summary_to_word, each as the function  *)
(*     it computes (with the variants of news.py where they differ);       *)
(*   - the wizard of news_streamlit.py around the batch run.               *)
(***************************************************************************)
EXTENDS Integers, Sequences, FiniteSets, TLC

(***************************************************************************)
(* Bounds of the model and constants of the program.                       *)
(***************************************************************************)
\* longest item list handed to run_analysis_and_synthesis_async in Spec
MaxItems == 2
\* length of the item list of SpecSem (one more than the semaphore admits)
SemItems == 12
\* asyncio.Semaphore(10)
SEMAPHORE_LIMIT == 10

VARIABLES
    filtered_items,      \* the argument of run_analysis_and_synthesis_async
    pc,                  \* position of each process_article_task coroutine
    taskResult,          \* what each finished task returned or raised
    hist,                \* per task: outcome of each external call so far
    semValue,            \* asyncio.Semaphore._value
    waiters,             \* asyncio.Semaphore._waiters (FIFO)
    doneQ,               \* as_completed: finished tasks, in completion order
    mainPc,              \* position of run_analysis_and_synthesis_async
    successful_results,  \* local list of the run
    failed_results,      \* local list of the run
    synthCalls,          \* number of calls of synthesize_final_report
    returned,            \* the tuple the run returned, or NoReturn
    progress_callback,   \* whether the caller passed a progress callback
    progress,            \* the calls of the callback so far, in order
    news_items,          \* filter_news_by_date: the list to filter
    start_date,          \* filter_news_by_date: first day of the range
    end_date,            \* filter_news_by_date: last day of the range
    filterPc,            \* "idle", "called", "returned" or "raised"
    filtered,            \* filter_news_by_date: the list returned
    summaries,           \* synthesize_final_report: its argument
    synthPc,             \* "idle", "called" or "sent"
    full_summary_text,   \* the text built from the summaries
    processed_count,     \* number of blocks put into the text
    response,            \* extract_keywords_with_gemini: text of the model's answer
    max_count,           \* extract_keywords_with_gemini: its max_count
    kwPc,                \* "idle", "called", "returned" or "raised"
    keywords,            \* extract_keywords_with_gemini: the list returned
    keywords_gpt,        \* extract_keywords_with_gpt (news.py): the list returned
    search_impl,         \* search_news_naver: "news_workflow" or "news" (the file)
    status_code,         \* response.status_code; 0: requests.get raised
    body,                \* what the response carries
    searchPc,            \* "idle", "called", "returned" or "raised"
    search_items,        \* search_news_naver: the list returned
    session_state,       \* st.session_state of news_streamlit.py
    uiPc,                \* "idle", or "running": process_form awaits the run
    uiLast,              \* what the last handler of the script did
    source_impl,         \* extract_news_source: "news_workflow" or "news" (the file)
    netloc,              \* urlparse(link).netloc, as its dot-separated labels
    srcPc,               \* "idle", "called" or "returned"
    source_name,         \* extract_news_source: the name returned
    summary_text,        \* save_summary_to_word: the report, as its lines
    doc_results,         \* save_summary_to_word: successful_results
    today,               \* the day datetime.now() falls on
    documents            \* the documents saved so far, one per call

batchVars == <<filtered_items, pc, taskResult, hist, semValue, waiters, doneQ,
               mainPc, successful_results, failed_results, synthCalls, returned,
               progress_callback, progress>>
cbVars == <<progress_callback, progress>>
filterVars == <<news_items, start_date, end_date, filterPc, filtered>>
synthVars == <<summaries, synthPc, full_summary_text, processed_count>>
kwVars == <<response, max_count, kwPc, keywords, keywords_gpt>>
\* what the batch run, the filter and the synthesizer leave alone
searchVars == <<search_impl, status_code, body, searchPc, search_items>>
uiVars == <<session_state, uiPc, uiLast>>
srcVars == <<source_impl, netloc, srcPc, source_name>>
docVars == <<summary_text, doc_results, today, documents>>
rendererVars == <<srcVars, docVars>>
offBatchVars == <<filterVars, synthVars, kwVars, searchVars, uiVars, rendererVars>>
offFilterVars == <<batchVars, synthVars, kwVars, searchVars, uiVars, rendererVars>>
offSynthVars == <<batchVars, filterVars, kwVars, searchVars, uiVars, rendererVars>>
offKwVars == <<batchVars, filterVars, synthVars, searchVars, uiVars, rendererVars>>
offSearchVars == <<batchVars, filterVars, synthVars, kwVars, uiVars, rendererVars>>
offUiVars == <<batchVars, filterVars, synthVars, kwVars, searchVars, rendererVars>>
offRendererVars == <<batchVars, filterVars, synthVars, kwVars, searchVars, uiVars>>

(***************************************************************************)
(* Items as the search API delivers them (dict with optional keys).        *)
(* link / originallink: "naver" is an n.news.naver.com URL, "other" any    *)
(* other URL, "absent" a missing key.  hasTitle: the "title" key exists.   *)
(***************************************************************************)
ItemKinds ==
    { [link |-> "naver",  originallink |-> "other",  hasTitle |-> TRUE],
      [link |-> "absent", originallink |-> "other",  hasTitle |-> TRUE],
      [link |-> "absent", originallink |-> "absent", hasTitle |-> TRUE],
      [link |-> "other",  originallink |-> "other",  hasTitle |-> FALSE] }

None == "None"
NoResult == [status |-> "pending"]
NoReturn == [report |-> "unset", successes |-> <<>>, failures |-> <<>>]
\* the task raised (TypeError on a None link, KeyError on a missing title)
Raised(i) == [status |-> "raised", item |-> i]

\* item.get("link", item.get("originallink"))
PreferredLink(item) ==
    IF item.link # "absent" THEN item.link
    ELSE IF item.originallink # "absent" THEN item.originallink
    ELSE None

\* {"status": "failed", "reason": ..., "link": link}
FailedRecord(i, reason) ==
    [status |-> "failed", reason |-> reason, item |-> i,
     link |-> PreferredLink(filtered_items[i])]

\* {"status": "success", "title": ..., "link": link, "original_item": item, "summary": ...}
SuccessRecord(i) ==
    [status |-> "success", item |-> i, link |-> PreferredLink(filtered_items[i])]

NoHist == [fast |-> "none", fallback |-> "none", summ |-> "none"]

Tasks == 1..Len(filtered_items)

(***************************************************************************)
(* asyncio.Semaphore                                                       *)
(***************************************************************************)
\* Semaphore.locked(): no free slot, or somebody is already waiting
SemLocked_NeverLocked(v, w) == FALSE
SemLocked(v, w) == v = 0 \/ w # <<>>

\* Semaphore.release() on behalf of task i, whose position becomes newPc:
\* the slot goes to the first waiter if there is one, else back to the counter.
ReleaseSlot(i, newPc) ==
    IF waiters = <<>>
    THEN /\ semValue' = semValue + 1
         /\ waiters' = waiters
         /\ pc' = [pc EXCEPT ![i] = newPc]
    ELSE /\ semValue' = semValue
         /\ waiters' = Tail(waiters)
         /\ pc' = [pc EXCEPT ![i] = newPc, ![Head(waiters)] = "acquired"]

\* the task ends inside `async with semaphore`: record the outcome, leave the
\* block (release), and the future becomes visible to as_completed
Finish(i, result) ==
    /\ ReleaseSlot(i, "done")
    /\ taskResult' = [taskResult EXCEPT ![i] = result]
    /\ doneQ' = Append(doneQ, i)

AllStarted == \A j \in Tasks : pc[j] # "new"

(***************************************************************************)
(* process_article_task                                                    *)
(***************************************************************************)
\* First step of task i (tasks take their first step in scheduling order):
\* `async with semaphore` either takes a slot or queues the task.
StartTask(i) ==
    /\ pc[i] = "new"
    /\ \A j \in Tasks : j < i => pc[j] # "new"
    /\ IF ~SemLocked(semValue, waiters)
       THEN /\ semValue' = semValue - 1
            /\ waiters' = waiters
            /\ pc' = [pc EXCEPT ![i] = "acquired"]
       ELSE /\ semValue' = semValue
            /\ waiters' = Append(waiters, i)
            /\ pc' = [pc EXCEPT ![i] = "queued"]
    /\ UNCHANGED <<filtered_items, taskResult, hist, doneQ, mainPc,
                   successful_results, failed_results, synthCalls, returned>>
    /\ UNCHANGED cbVars
    /\ UNCHANGED offBatchVars

\* Inside the block: compute the link and issue the first external call.
\* `"n.news.naver.com" in link` raises TypeError when link is None.
BodyBegin(i) ==
    /\ pc[i] = "acquired"
    /\ LET link == PreferredLink(filtered_items[i]) IN
       IF link = None
       THEN /\ Finish(i, Raised(i))
            /\ UNCHANGED hist
       ELSE /\ pc' = [pc EXCEPT ![i] = IF link = "naver" THEN "fast" ELSE "fallback"]
            /\ UNCHANGED <<taskResult, hist, semValue, waiters, doneQ>>
    /\ UNCHANGED <<filtered_items, mainPc, successful_results, failed_results,
                   synthCalls, returned>>
    /\ UNCHANGED cbVars
    /\ UNCHANGED offBatchVars

\* extract_naver_article_fast_async returns (title, content); t and c say
\* whether each is truthy.  It returns (None, None), or a non-empty content
\* with a title that may be the empty string.
FastOutcomes == { <<FALSE, FALSE>>, <<FALSE, TRUE>>, <<TRUE, TRUE>> }

FastReturns(i, t, c) ==
    /\ pc[i] = "fast"
    /\ AllStarted
    /\ IF t /\ c
       THEN /\ pc' = [pc EXCEPT ![i] = "summarize"]
            /\ hist' = [hist EXCEPT ![i].fast = "ok"]
       ELSE /\ pc' = [pc EXCEPT ![i] = "fallback"]
            /\ hist' = [hist EXCEPT ![i].fast = "failed"]
    /\ UNCHANGED <<filtered_items, taskResult, semValue, waiters, doneQ, mainPc,
                   successful_results, failed_results, synthCalls, returned>>
    /\ UNCHANGED cbVars
    /\ UNCHANGED offBatchVars

\* extract_article_content_async returns (title, content), each possibly None
FallbackReturns(i, t, c) ==
    /\ pc[i] = "fallback"
    /\ AllStarted
    /\ IF t /\ c
       THEN /\ pc' = [pc EXCEPT ![i] = "summarize"]
            /\ hist' = [hist EXCEPT ![i].fallback = "ok"]
            /\ UNCHANGED <<taskResult, semValue, waiters, doneQ>>
       ELSE /\ Finish(i, FailedRecord(i, "crawl_failed"))
            /\ hist' = [hist EXCEPT ![i].fallback = "failed"]
    /\ UNCHANGED <<filtered_items, mainPc, successful_results, failed_results,
                   synthCalls, returned>>
    /\ UNCHANGED cbVars
    /\ UNCHANGED offBatchVars

\* summarize_individual_article_async returns the summary or None; on a
\* summary the success record is built, and item["title"] raises KeyError
\* when the item has no title.
SummarizeReturns(i, s) ==
    /\ pc[i] = "summarize"
    /\ AllStarted
    /\ hist' = [hist EXCEPT ![i].summ = IF s THEN "ok" ELSE "failed"]
    /\ IF ~s
       THEN Finish(i, FailedRecord(i, "summary_failed"))
       ELSE IF filtered_items[i].hasTitle
            THEN Finish(i, SuccessRecord(i))
            ELSE Finish(i, Raised(i))
    /\ UNCHANGED <<filtered_items, mainPc, successful_results, failed_results,
                   synthCalls, returned>>
    /\ UNCHANGED cbVars
    /\ UNCHANGED offBatchVars

(***************************************************************************)
(* run_analysis_and_synthesis_async                                        *)
(***************************************************************************)
total_items == Len(filtered_items)

\* the index i of the loop is the number of futures awaited before this one
Collected == Len(successful_results) + Len(failed_results)

\* progress_callback(current, total, message); the message is one of the two
\* texts of the run: "item" (per completion) or "synthesis_start"
ProgressCall(current, total, message) ==
    [current |-> current, total |-> total, message |-> message]

\* one iteration of `for i, future in enumerate(asyncio.as_completed(tasks))`
FanIn ==
    /\ mainPc = "fanin"
    /\ doneQ # <<>>
    /\ LET result == taskResult[Head(doneQ)] IN
       /\ doneQ' = Tail(doneQ)
       /\ IF result.status = "raised"
          THEN /\ mainPc' = "task_raised"
               /\ UNCHANGED <<successful_results, failed_results, progress>>
          ELSE /\ IF result.status = "success"
                  THEN /\ successful_results' = Append(successful_results, result)
                       /\ UNCHANGED <<mainPc, failed_results>>
                  ELSE /\ failed_results' = Append(failed_results, result)
                       /\ UNCHANGED <<mainPc, successful_results>>
               /\ progress' = IF progress_callback
                               THEN Append(progress,
                                           ProgressCall(Collected + 1, total_items,
                                                        "item"))
                               ELSE progress
    /\ UNCHANGED <<filtered_items, pc, taskResult, hist, semValue, waiters,
                   synthCalls, returned, progress_callback>>
    /\ UNCHANGED offBatchVars

\* the loop is exhausted: short-circuit on no success, else call the synthesizer
AfterFanIn ==
    /\ mainPc = "fanin"
    /\ Collected = Len(filtered_items)
    /\ IF successful_results = <<>>
       THEN /\ mainPc' = "returned"
            /\ returned' = [report |-> None, successes |-> <<>>, failures |-> <<>>]
            /\ UNCHANGED <<synthCalls, progress>>
       ELSE /\ mainPc' = "synthesizing"
            /\ synthCalls' = synthCalls + 1
            /\ progress' = IF progress_callback
                            THEN Append(progress,
                                        ProgressCall(total_items, total_items,
                                                     "synthesis_start"))
                            ELSE progress
            /\ UNCHANGED returned
    /\ UNCHANGED <<filtered_items, pc, taskResult, hist, semValue, waiters, doneQ,
                   successful_results, failed_results, progress_callback>>
    /\ UNCHANGED offBatchVars

\* response.text.strip() of the synthesizer: a text, possibly the empty one
Reports == {"report", ""}

\* synthesize_final_report returned the report text
SynthReturns(final_report) ==
    /\ mainPc = "synthesizing"
    /\ mainPc' = "returned"
    /\ returned' = [report |-> final_report, successes |-> successful_results,
                    failures |-> failed_results]
    /\ UNCHANGED <<filtered_items, pc, taskResult, hist, semValue, waiters, doneQ,
                   successful_results, failed_results, synthCalls>>
    /\ UNCHANGED cbVars
    /\ UNCHANGED offBatchVars

\* the failure of the synthesizer caught in the run, which then returns
\* the lists with an empty report
SynthRaises_Swallowed ==
    /\ mainPc = "synthesizing"
    /\ mainPc' = "synth_raised"
    /\ returned' = [report |-> None, successes |-> successful_results,
                    failures |-> failed_results]
    /\ UNCHANGED <<filtered_items, pc, taskResult, hist, semValue, waiters, doneQ,
                   successful_results, failed_results, synthCalls>>
    /\ UNCHANGED cbVars
    /\ UNCHANGED offBatchVars

\* synthesize_final_report raised (model error or empty response)
SynthRaises ==
    /\ mainPc = "synthesizing"
    /\ mainPc' = "synth_raised"
    /\ UNCHANGED <<filtered_items, pc, taskResult, hist, semValue, waiters, doneQ,
                   successful_results, failed_results, synthCalls, returned>>
    /\ UNCHANGED cbVars
    /\ UNCHANGED offBatchVars

BatchInit(items) ==
    /\ filtered_items = items
    /\ pc = [i \in 1..Len(items) |-> "new"]
    /\ taskResult = [i \in 1..Len(items) |-> NoResult]
    /\ hist = [i \in 1..Len(items) |-> NoHist]
    /\ semValue = SEMAPHORE_LIMIT
    /\ waiters = <<>>
    /\ doneQ = <<>>
    /\ mainPc = "fanin"
    /\ successful_results = <<>>
    /\ failed_results = <<>>
    /\ synthCalls = 0
    /\ returned = NoReturn
    /\ progress = <<>>

\* no run is going on
BatchIdle == BatchInit(<<>>) /\ progress_callback = FALSE

FilterIdle ==
    /\ news_items = <<>>
    /\ start_date = 1
    /\ end_date = 1
    /\ filterPc = "idle"
    /\ filtered = <<>>

SynthIdle ==
    /\ summaries = <<>>
    /\ synthPc = "idle"
    /\ full_summary_text = <<>>
    /\ processed_count = 0

KwIdle ==
    /\ response = <<>>
    /\ max_count = 0
    /\ kwPc = "idle"
    /\ keywords = <<>>
    /\ keywords_gpt = <<>>

NoBody == [kind |-> "not_json", items |-> <<>>]

SearchIdle ==
    /\ search_impl = "news_workflow"
    /\ status_code = 0
    /\ body = NoBody
    /\ searchPc = "idle"
    /\ search_items = <<>>

(***************************************************************************)
(* The wizard of news_streamlit.py.  One action is one run of the script   *)
(* for one widget event; process_form is cut where it awaits the batch     *)
(* run.  st.rerun() and st.stop() end the script by raising a script       *)
(* control exception, which `except Exception` does not catch.             *)
(***************************************************************************)
Steps == {"initial", "keywords_ready", "done"}

InitialSession ==
    [step |-> "initial", keywords |-> <<>>, final_keywords |-> <<>>,
     final_report |-> None, successful_results |-> <<>>,
     failed_results |-> <<>>]

\* handler: the form or callback that ran; link, dates_ok: what input_form
\* was submitted with; result: how the handler ended
Event(handler, link, dates_ok, result) ==
    [handler |-> handler, link |-> link, dates_ok |-> dates_ok,
     result |-> result]

NoEvent == Event("none", FALSE, FALSE, "none")

UiIdle ==
    /\ session_state = InitialSession
    /\ uiPc = "idle"
    /\ uiLast = NoEvent

\* what asyncio.run(run_analysis_and_synthesis_async(...)) gave the script
RunRaised ==
    [kind |-> "raised", report |-> None, successes |-> <<>>, failures |-> <<>>]

RunOutcome ==
    IF mainPc = "returned"
    THEN [kind |-> "returned", report |-> returned.report,
          successes |-> returned.successes, failures |-> returned.failures]
    ELSE RunRaised

\* `not final_report`
Falsy(final_report) == final_report \in {None, ""}

\* process_form that stores the report and the successes of the run but
\* leaves failed_results as it was
ProcessFormAfterRun_StaleFailures(o) ==
    /\ uiPc = "running"
    /\ uiPc' = "idle"
    /\ IF o.kind = "raised"
       THEN /\ session_state' = [session_state EXCEPT !.step = "initial"]
            /\ uiLast' = Event("process_form", FALSE, FALSE, "exception")
       ELSE IF Falsy(o.report)
       THEN /\ UNCHANGED session_state
            /\ uiLast' = Event("process_form", FALSE, FALSE, "stop")
       ELSE /\ session_state' = [session_state EXCEPT
                                    !.final_report = o.report,
                                    !.successful_results = o.successes,
                                    !.step = "done"]
            /\ uiLast' = Event("process_form", FALSE, FALSE, "ok")

\* process_form without the test `if not final_report`
ProcessFormAfterRun_NoReportTest(o) ==
    /\ uiPc = "running"
    /\ uiPc' = "idle"
    /\ IF o.kind = "raised"
       THEN /\ session_state' = [session_state EXCEPT !.step = "initial"]
            /\ uiLast' = Event("process_form", FALSE, FALSE, "exception")
       ELSE /\ session_state' = [session_state EXCEPT
                                    !.final_report = o.report,
                                    !.successful_results = o.successes,
                                    !.failed_results = o.failures,
                                    !.step = "done"]
            /\ uiLast' = Event("process_form", FALSE, FALSE, "ok")

\* process_form from the return of asyncio.run on
ProcessFormAfterRun(o) ==
    /\ uiPc = "running"
    /\ uiPc' = "idle"
    /\ IF o.kind = "raised"
       THEN /\ session_state' = [session_state EXCEPT !.step = "initial"]
            /\ uiLast' = Event("process_form", FALSE, FALSE, "exception")
       ELSE IF Falsy(o.report)
       THEN /\ UNCHANGED session_state
            /\ uiLast' = Event("process_form", FALSE, FALSE, "stop")
       ELSE /\ session_state' = [session_state EXCEPT
                                    !.final_report = o.report,
                                    !.successful_results = o.successes,
                                    !.failed_results = o.failures,
                                    !.step = "done"]
            /\ uiLast' = Event("process_form", FALSE, FALSE, "ok")

\* the batch run this script started has ended
ProcessFormRunEnds ==
    /\ mainPc \in {"returned", "task_raised", "synth_raised"}
    /\ ProcessFormAfterRun(RunOutcome)
    /\ UNCHANGED offUiVars

\* a session that reached keywords_ready, before or after an earlier report
OldSuccess == [status |-> "success", item |-> 0, link |-> "other"]

SessionsBeforeRun ==
    { [InitialSession EXCEPT !.step = "keywords_ready", !.keywords = <<1>>,
                             !.final_keywords = <<1>>],
      [InitialSession EXCEPT !.step = "keywords_ready", !.keywords = <<1>>,
                             !.final_keywords = <<1>>,
                             !.final_report = "old_report",
                             !.successful_results = <<OldSuccess>>] }

SrcIdle ==
    /\ source_impl = "news_workflow"
    /\ netloc = <<>>
    /\ srcPc = "idle"
    /\ source_name = ""

DocIdle ==
    /\ summary_text = <<>>
    /\ doc_results = <<>>
    /\ today = 1
    /\ documents = <<>>

RendererIdle == SrcIdle /\ DocIdle

vars == <<batchVars, filterVars, synthVars, kwVars, searchVars, uiVars,
          rendererVars>>

Init ==
    /\ \E n \in 0..MaxItems : \E items \in [1..n -> ItemKinds] : BatchInit(items)
    /\ \/ /\ progress_callback \in BOOLEAN
          /\ UiIdle
       \/ /\ filtered_items # <<>>
          /\ progress_callback = TRUE
          /\ session_state \in SessionsBeforeRun
          /\ uiPc = "running"
          /\ uiLast = Event("process_form", FALSE, FALSE, "running")
    /\ FilterIdle
    /\ SynthIdle
    /\ KwIdle
    /\ SearchIdle
    /\ RendererIdle

Next ==
    \/ \E i \in Tasks : StartTask(i)
    \/ \E i \in Tasks : BodyBegin(i)
    \/ \E i \in Tasks : \E o \in FastOutcomes : FastReturns(i, o[1], o[2])
    \/ \E i \in Tasks : \E t, c \in BOOLEAN : FallbackReturns(i, t, c)
    \/ \E i \in Tasks : \E s \in BOOLEAN : SummarizeReturns(i, s)
    \/ FanIn
    \/ AfterFanIn
    \/ \E final_report \in Reports : SynthReturns(final_report)
    \/ SynthRaises
    \/ ProcessFormRunEnds

Spec == Init /\ [][Next]_vars

(***************************************************************************)
(* Claims about the batch run (Spec).                                      *)
(***************************************************************************)
RunEnded == mainPc \in {"returned", "task_raised", "synth_raised"}

SeqItems(q) == {q[k].item : k \in 1..Len(q)}

\* C1: the success list and the failure list a run returns have
\* len(successes) + len(failures) = N, and no item is in both lists.
C1_ReturnedListsPartitionInput ==
    mainPc = "returned" =>
        /\ Len(returned.successes) + Len(returned.failures) = Len(filtered_items)
        /\ SeqItems(returned.successes) \cap SeqItems(returned.failures) = {}

\* C2: a run in which every one of the N items failed returns a null report,
\* an empty success list and a failure list with exactly one entry per item.
C2_AllFailedReturnsFullFailureList ==
    (mainPc = "returned" /\ successful_results = <<>>) =>
        /\ returned.report = None
        /\ returned.successes = <<>>
        /\ Len(returned.failures) = Len(filtered_items)
        /\ SeqItems(returned.failures) = Tasks

\* C3: synthesize_final_report is called only once every per-item pipeline
\* has completed, at most once, and a run that ends has called it exactly
\* once if an item succeeded and not at all otherwise.
C3_SynthesisOnceAfterBarrier ==
    /\ synthCalls <= 1
    /\ synthCalls = 1 => \A i \in Tasks : pc[i] = "done"
    /\ RunEnded => synthCalls = (IF successful_results # <<>> THEN 1 ELSE 0)

\* C5: the failure of one item's pipeline, a raise of process_article_task
\* included, never aborts the batch: a run that ends has returned its tuple
\* (or failed in the synthesis), having collected every item.
C5_ItemFailureNeverAbortsBatch ==
    /\ mainPc # "task_raised"
    /\ mainPc = "returned" => Collected = Len(filtered_items)

FetchOk(i) == hist[i].fast = "ok" \/ hist[i].fallback = "ok"
FetchFailed(i) == hist[i].fallback = "failed"

\* C6: per item, the summarizer is called only after a fetch that gave a
\* title and a body; a failed fetch gives a failure record with the
\* fetch-failed reason and no summarizer call; a failed summary gives a
\* failure record with the summarize-failed reason; otherwise the task
\* gives exactly one success record.
C6_PerItemPipelineOutcome ==
    \A i \in Tasks :
        /\ (pc[i] = "summarize" \/ hist[i].summ # "none") => FetchOk(i)
        /\ pc[i] = "done" =>
            /\ FetchFailed(i) =>
                  /\ taskResult[i] = FailedRecord(i, "crawl_failed")
                  /\ hist[i].summ = "none"
            /\ hist[i].summ = "failed" =>
                  taskResult[i] = FailedRecord(i, "summary_failed")
            /\ (FetchOk(i) /\ hist[i].summ = "ok") =>
                  taskResult[i] = SuccessRecord(i)

\* C15: a failure of the synthesis is fatal.  When synthesize_final_report
\* raises, the run returns no tuple, and the script that awaits it stores
\* neither final_report nor the result lists and does not enter "done".
C15_SynthesisFailureIsFatal ==
    [][mainPc' = "synth_raised"
          => /\ returned' = NoReturn
             /\ session_state'.step # "done"
             /\ session_state'.final_report = session_state.final_report
             /\ session_state'.successful_results
                    = session_state.successful_results
             /\ session_state'.failed_results = session_state.failed_results]_vars

\* the synthesis raised in a run the script awaited, and the script went on
C15_Witness ==
    /\ mainPc = "synth_raised"
    /\ uiLast = Event("process_form", FALSE, FALSE, "exception")
    /\ session_state.step = "initial"
    /\ session_state.final_report = "old_report"

\* C14: a run with a callback and at least one success has called it once
\* per completed item, once at the start of the synthesis and once at its
\* end, after synthesize_final_report returned and before the run returns.
C14_CallbackPerItemAndAroundSynthesis ==
    (mainPc = "returned" /\ progress_callback /\ successful_results # <<>>)
        => /\ Len(progress) = total_items + 2
           /\ \A k \in 1..total_items : progress[k].message = "item"
           /\ progress[total_items + 1].message = "synthesis_start"
           /\ progress[total_items + 2].message = "synthesis_end"

\* the calls the fan-in loop made of the callback, in order
ItemCalls == SelectSeq(progress, LAMBDA c : c.message = "item")

\* C21: whatever the order of completion, the fan-in loop passes the counts
\* 1, 2, ..., N in that order, each with total N, so that current / total
\* lies in (0, 1]; when the loop is over all N counts have been passed.
C21_ProgressCountsOneToN ==
    progress_callback
        => /\ \A k \in 1..Len(ItemCalls) :
                  /\ ItemCalls[k].current = k
                  /\ ItemCalls[k].total = total_items
                  /\ 0 < ItemCalls[k].current
                  /\ ItemCalls[k].current <= ItemCalls[k].total
           /\ mainPc # "fanin" => Len(ItemCalls) = total_items

\* the task has called the fallback extractor (the call may be in flight)
FallbackInvoked(i) == pc[i] = "fallback" \/ hist[i].fallback # "none"

\* the task is past the fast tier: in the fallback, in the summary, or ended
PastFastTier(i) == pc[i] \in {"fallback", "summarize", "done"}

\* C18: the fast scraper is tried first and for n.news.naver.com links
\* only; the fallback is called exactly when the fast scraper was not tried
\* or gave no title or no body, never after it succeeded; an item is a
\* fetch failure only if both tiers failed.
C18_TwoTierFetch ==
    \A i \in Tasks :
        /\ (pc[i] = "fast" \/ hist[i].fast # "none")
               => /\ PreferredLink(filtered_items[i]) = "naver"
                  /\ hist[i].fallback = "none" \/ hist[i].fast = "failed"
        /\ (PastFastTier(i) /\ PreferredLink(filtered_items[i]) = "naver")
               => hist[i].fast # "none"
        /\ PastFastTier(i)
               => (FallbackInvoked(i) <=> hist[i].fast \in {"none", "failed"})
        /\ (pc[i] = "done" /\ taskResult[i] = FailedRecord(i, "crawl_failed"))
               => hist[i].fast # "ok" /\ hist[i].fallback = "failed"

\* The run under the scheduling of the event loop: a task that can take a
\* step takes it, every external call returns (with a result or a failure),
\* and the script that awaits the run goes on when the run has ended.
Fairness ==
    /\ \A i \in 1..MaxItems :
          /\ WF_vars(i \in Tasks /\ StartTask(i))
          /\ WF_vars(i \in Tasks /\ BodyBegin(i))
          /\ WF_vars(i \in Tasks /\ \E o \in FastOutcomes :
                                        FastReturns(i, o[1], o[2]))
          /\ WF_vars(i \in Tasks /\ \E t, c \in BOOLEAN :
                                        FallbackReturns(i, t, c))
          /\ WF_vars(i \in Tasks /\ \E s \in BOOLEAN : SummarizeReturns(i, s))
    /\ WF_vars(FanIn)
    /\ WF_vars(AfterFanIn)
    /\ WF_vars((\E final_report \in Reports : SynthReturns(final_report))
                   \/ SynthRaises)
    /\ WF_vars(ProcessFormRunEnds)

SpecFair == Spec /\ Fairness

\* tasks inside the `async with semaphore` block
SlotHolders ==
    {i \in Tasks : pc[i] \in {"acquired", "fast", "fallback", "summarize"}}

\* C20: a task gives its slot back when it ends, however it ends; and when
\* every external call returns, every pipeline ends and the run returns
\* its tuple (a failure of the synthesizer, fatal by design, apart).
C20_SlotsReleasedRunReturns ==
    /\ [](semValue + Cardinality(SlotHolders) = SEMAPHORE_LIMIT)
    /\ <>(\A i \in Tasks : pc[i] = "done")
    /\ <>(mainPc \in {"returned", "synth_raised"})

(***************************************************************************)
(* filter_news_by_date                                                     *)
(*                                                                         *)
(* Calendar dates are day numbers 1..MaxDay.  The value of an item's       *)
(* "pubDate" key is what item.get("pubDate") returns:                      *)
(*   [type |-> "NoneType"]                       the key is absent          *)
(*   [type |-> "str", form |-> "empty"]          the empty string           *)
(*   [type |-> "str", form |-> "rfc822", day, hour]                         *)
(*                                 "Tue, 29 Jul 2025 23:10:00 +0900"        *)
(*   [type |-> "str", form |-> "iso", day]       "2025-07-29", another      *)
(*                                               format                     *)
(*   [type |-> "int", value]                     a JSON number              *)
(***************************************************************************)
\* longest list handed to filter_news_by_date
MaxNews == 2
\* days of the calendar of the model
MaxDay == 3

Days == 1..MaxDay
Hours == {0, 23}

PubDates ==
    { [type |-> "NoneType"], [type |-> "str", form |-> "empty"],
      [type |-> "int", value |-> 0], [type |-> "int", value |-> 20250729] }
    \cup { [type |-> "str", form |-> "iso", day |-> d] : d \in Days }
    \cup { [type |-> "str", form |-> "rfc822", day |-> d, hour |-> h] :
              d \in Days, h \in Hours }

\* Python truthiness: None, "" and 0 are falsy
Truthy(v) ==
    CASE v.type = "NoneType" -> FALSE
      [] v.type = "str" -> v.form # "empty"
      [] v.type = "int" -> v.value # 0

\* datetime.strptime(v, "%a, %d %b %Y %H:%M:%S %z"): a datetime, ValueError
\* for a string in another format, TypeError for what is not a string
strptime(v) ==
    IF v.type # "str" THEN [error |-> "TypeError"]
    ELSE IF v.form # "rfc822" THEN [error |-> "ValueError"]
    ELSE [error |-> "none", day |-> v.day, hour |-> v.hour]

\* datetime.date(): the calendar date as written, the time of day dropped
date(dt) == dt.day

\* start_date <= pub_date <= end_date
InRange(start, d, end) == start <= d /\ d <= end

\* the loop of filter_news_by_date from item k on, filtered_items being acc;
\* only ValueError is caught, any other exception leaves the function
RECURSIVE FilterFrom(_, _, _, _, _)
FilterFrom(items, k, start, end, acc) ==
    IF k > Len(items) THEN [status |-> "returned", items |-> acc]
    ELSE LET pub_date_str == items[k].pubDate IN
         IF ~Truthy(pub_date_str) THEN FilterFrom(items, k + 1, start, end, acc)
         ELSE LET dt == strptime(pub_date_str) IN
              IF dt.error = "TypeError" THEN [status |-> "raised", items |-> <<>>]
              ELSE IF dt.error = "ValueError"
              THEN FilterFrom(items, k + 1, start, end, acc)
              ELSE IF InRange(start, date(dt), end)
              THEN FilterFrom(items, k + 1, start, end, Append(acc, items[k]))
              ELSE FilterFrom(items, k + 1, start, end, acc)

filter_news_by_date(items, start, end) == FilterFrom(items, 1, start, end, <<>>)

RunFilter ==
    /\ filterPc = "called"
    /\ LET r == filter_news_by_date(news_items, start_date, end_date) IN
       /\ filterPc' = r.status
       /\ filtered' = r.items
    /\ UNCHANGED <<news_items, start_date, end_date>>
    /\ UNCHANGED offFilterVars

InitFilter ==
    /\ \E n \in 0..MaxNews : \E dates \in [1..n -> PubDates] :
          news_items = [k \in 1..n |-> [id |-> k, pubDate |-> dates[k]]]
    /\ start_date \in Days
    /\ end_date \in Days
    /\ filterPc = "called"
    /\ filtered = <<>>
    /\ BatchIdle
    /\ SynthIdle
    /\ KwIdle
    /\ SearchIdle
    /\ UiIdle
    /\ RendererIdle

NextFilter == RunFilter

SpecFilter == InitFilter /\ [][NextFilter]_vars

\* the item carries a publish date in the fixed format, within the range
WantedItem(it) ==
    /\ it.pubDate.type = "str"
    /\ it.pubDate.form = "rfc822"
    /\ start_date <= it.pubDate.day
    /\ it.pubDate.day <= end_date

\* C7: for every item list and date range the filter returns the items whose
\* publish date lies in [start, end], both ends included, in input order,
\* and no item with a missing or malformed date.
C7_FilterReturnsItemsInRange ==
    filterPc # "called" =>
        /\ filterPc = "returned"
        /\ filtered = SelectSeq(news_items, WantedItem)

\* C8: the filter never raises because of an item's publish date, whether
\* the date is absent, empty, in another format or not a string.
C8_FilterNeverRaises == filterPc # "raised"

(***************************************************************************)
(* synthesize_final_report: the text built from the summaries              *)
(*                                                                         *)
(* A summary is known by the lengths of its title and of its summary text. *)
(* The text is kept as the sequence of the pieces appended to it, each a   *)
(* numbered block or the closing note; its length is the sum of theirs.    *)
(***************************************************************************)
\* longest list handed to synthesize_final_report
MaxSummaries == 3
\* MAX_INPUT_CHARS = 25000
MAX_INPUT_CHARS == 25000

TitleLens == {10, 60}
SummaryLens == {100, 12000, 24950, 24972}

\* number of characters of str(n), n >= 0
RECURSIVE Digits(_)
Digits(n) == IF n < 10 THEN 1 ELSE 1 + Digits(n \div 10)

\* f"### 뉴스 {n}: {title}\n{summary}\n\n---\n\n"
Block(n, summary_data) ==
    [kind |-> "block", index |-> n, data |-> summary_data]
\* f"\n... 외 {remaining_count}개의 관련 기사가 있으나, ... 사용합니다.\n"
Note(remaining_count) ==
    [kind |-> "note", remaining |-> remaining_count]

\* len() of one piece: 7 + digits + 2 + title + 1 + summary + 7 for a block,
\* 45 + digits for the note
PieceLen(piece) ==
    IF piece.kind = "block"
    THEN 7 + Digits(piece.index) + 2 + piece.data.titleLen + 1
           + piece.data.summaryLen + 7
    ELSE 45 + Digits(piece.remaining)

RECURSIVE TextLen(_)
TextLen(text) ==
    IF text = <<>> THEN 0 ELSE PieceLen(Head(text)) + TextLen(Tail(text))

\* len(full_summary_text) + len(summary_entry) > MAX_INPUT_CHARS
Overflows_AtLimitToo(text, entry) ==
    TextLen(text) + PieceLen(entry) >= MAX_INPUT_CHARS
Overflows(text, entry) ==
    TextLen(text) + PieceLen(entry) > MAX_INPUT_CHARS

\* the for loop from summaries[k] on; it breaks at the first entry that
\* would overflow
RECURSIVE ConcatFrom(_, _, _, _)
ConcatFrom(ss, k, text, count) ==
    IF k > Len(ss) THEN [text |-> text, count |-> count]
    ELSE LET summary_entry == Block(count + 1, ss[k]) IN
         IF Overflows(text, summary_entry)
         THEN [text |-> text, count |-> count]
         ELSE ConcatFrom(ss, k + 1, Append(text, summary_entry), count + 1)

\* the loop, then the note when summaries were left out
BuildSummaryText(ss) ==
    LET r == ConcatFrom(ss, 1, <<>>, 0) IN
    IF r.count < Len(ss)
    THEN [text |-> Append(r.text, Note(Len(ss) - r.count)), count |-> r.count]
    ELSE r

\* the text is built and sent to the model inside user_prompt
SendSummaries ==
    /\ synthPc = "called"
    /\ LET r == BuildSummaryText(summaries) IN
       /\ full_summary_text' = r.text
       /\ processed_count' = r.count
    /\ synthPc' = "sent"
    /\ UNCHANGED summaries
    /\ UNCHANGED offSynthVars

InitSynth ==
    /\ \E n \in 0..MaxSummaries :
          summaries \in [1..n -> [titleLen : TitleLens, summaryLen : SummaryLens]]
    /\ synthPc = "called"
    /\ full_summary_text = <<>>
    /\ processed_count = 0
    /\ BatchIdle
    /\ FilterIdle
    /\ KwIdle
    /\ SearchIdle
    /\ UiIdle
    /\ RendererIdle

NextSynth == SendSummaries

SpecSynth == InitSynth /\ [][NextSynth]_vars

\* C9: the text sent to the model, closing note included, is never longer
\* than the budget of 25,000 characters.
C9_SentTextWithinBudget ==
    synthPc = "sent" => TextLen(full_summary_text) <= MAX_INPUT_CHARS

Blocks(text) == SelectSeq(text, LAMBDA piece : piece.kind = "block")
Notes(text) == SelectSeq(text, LAMBDA piece : piece.kind = "note")

\* length of the first j summaries as blocks numbered 1..j
RECURSIVE PrefixLen(_)
PrefixLen(j) ==
    IF j = 0 THEN 0 ELSE PrefixLen(j - 1) + PieceLen(Block(j, summaries[j]))

\* the longest prefix of the summaries that fits the budget
LongestFit ==
    CHOOSE j \in 0..Len(summaries) :
        /\ PrefixLen(j) <= MAX_INPUT_CHARS
        /\ j < Len(summaries) => PrefixLen(j + 1) > MAX_INPUT_CHARS
        /\ \A m \in 0..j : PrefixLen(m) <= MAX_INPUT_CHARS

\* C10: the text holds whole blocks only, numbered 1..k in input order, for
\* the longest prefix of the summaries that fits the budget, none after the
\* first that overflows; the note is there iff k < N and tells N - k.
C10_WholeBlocksOfLongestPrefix ==
    synthPc = "sent" =>
        LET k == LongestFit
            N == Len(summaries) IN
        /\ processed_count = k
        /\ Blocks(full_summary_text) = [j \in 1..k |-> Block(j, summaries[j])]
        /\ SubSeq(full_summary_text, 1, k) = Blocks(full_summary_text)
        /\ Notes(full_summary_text) = (IF k < N THEN <<Note(N - k)>> ELSE <<>>)
        /\ Len(full_summary_text) = k + (IF k < N THEN 1 ELSE 0)

\* a run of three summaries that keeps the first block only: the second
\* would overflow, and the third is left out although it would still fit
C10_Witness ==
    /\ synthPc = "sent"
    /\ Len(summaries) = 3
    /\ processed_count = 1
    /\ PrefixLen(1) + PieceLen(Block(2, summaries[3])) <= MAX_INPUT_CHARS
    /\ Notes(full_summary_text) = <<Note(2)>>

(***************************************************************************)
(* Keyword post-processing.  A text is a sequence of one-character         *)
(* strings, so that split, strip and the regular expressions act on the    *)
(* characters as Python does.                                              *)
(***************************************************************************)
MaxCandidates == 3      \* candidates in one answer of the model
MaxCount == 3           \* largest max_count tried

DigitChars == {"1", "2"}
MarkerChars == DigitChars \cup {".", "-"}      \* the class [\d\.\-]
IsSpace(c) == c \in {" ", "\n"}

RECURSIVE lstrip(_)
lstrip(s) == IF s # <<>> /\ IsSpace(Head(s)) THEN lstrip(Tail(s)) ELSE s

RECURSIVE rstrip(_)
rstrip(s) ==
    IF s # <<>> /\ IsSpace(s[Len(s)])
    THEN rstrip(SubSeq(s, 1, Len(s) - 1))
    ELSE s

strip(s) == rstrip(lstrip(s))

RECURSIVE split(_, _)
split(s, sep) ==
    IF \E i \in 1..Len(s) : s[i] = sep
    THEN LET i == CHOOSE k \in 1..Len(s) :
                      s[k] = sep /\ \A j \in 1..(k - 1) : s[j] # sep
         IN  <<SubSeq(s, 1, i - 1)>> \o split(SubSeq(s, i + 1, Len(s)), sep)
    ELSE <<s>>

RECURSIVE DropWhileIn(_, _)
DropWhileIn(s, chars) ==
    IF s # <<>> /\ Head(s) \in chars THEN DropWhileIn(Tail(s), chars) ELSE s

\* re.sub(r"^\s*[\d\.\-]+\s*", "", kw)
sub_marker(kw) ==
    LET a == lstrip(kw)
    IN  IF a # <<>> /\ Head(a) \in MarkerChars
        THEN lstrip(DropWhileIn(a, MarkerChars))
        ELSE kw

\* re.sub(r'^\d+\.\s*', '', kw) of news.py
sub_ordinal(kw) ==
    LET d == DropWhileIn(kw, DigitChars)
    IN  IF kw # <<>> /\ Head(kw) \in DigitChars /\ d # <<>> /\ Head(d) = "."
        THEN lstrip(Tail(d))
        ELSE kw

Take(q, n) == SubSeq(q, 1, IF n < Len(q) THEN n ELSE Len(q))

RECURSIVE keywords_list(_)
keywords_list(lines) ==
    IF lines = <<>> THEN <<>>
    ELSE LET pieces == split(Head(lines), ",")
         IN  [k \in 1..Len(pieces) |-> strip(pieces[k])]
                 \o keywords_list(Tail(lines))

NonEmptyText(kw) == strip(kw) # <<>>

cleaned_keywords(keywords_text) ==
    LET kept == SelectSeq(keywords_list(split(keywords_text, "\n")),
                          NonEmptyText)
    IN  [k \in 1..Len(kept) |-> strip(sub_marker(kept[k]))]

extract_keywords_with_gemini(keywords_text, n) ==
    Take(cleaned_keywords(keywords_text), n)

extract_keywords_with_gpt(content) ==
    LET lines == split(strip(content), "\n")
        subbed == [k \in 1..Len(lines) |-> strip(sub_ordinal(lines[k]))]
    IN  Take(SelectSeq(subbed, LAMBDA kw : kw # <<>>), 3)

\* The call: generate_keywords_sync hands back the stripped answer, or ""
\* when the model failed or answered without parts.
ExtractKeywords ==
    /\ kwPc = "called"
    /\ LET keywords_text == strip(response)
       IN  IF keywords_text = <<>>
           THEN /\ kwPc' = "raised"
                /\ UNCHANGED keywords
           ELSE /\ kwPc' = "returned"
                /\ keywords' = extract_keywords_with_gemini(keywords_text,
                                                            max_count)
    /\ keywords_gpt' = extract_keywords_with_gpt(response)
    /\ UNCHANGED <<response, max_count>>
    /\ UNCHANGED offKwVars

\* the candidates an answer is made of
Candidates ==
    { <<"1", ".", " ", "A">>, <<"2", ")", " ", "B">>, <<"C">>,
      <<"1", ".">>, <<"-">>, <<"-", " ", "A">>, <<" ">> }
Separators == {"\n", ","}

RECURSIVE Join(_, _)
Join(cands, seps) ==
    IF cands = <<>> THEN <<>>
    ELSE IF Len(cands) = 1 THEN cands[1]
    ELSE cands[1] \o <<seps[1]>> \o Join(Tail(cands), Tail(seps))

Responses ==
    { Join(c, sp) : <<c, sp>> \in
        UNION { [1..n -> Candidates] \X [1..(n - 1) -> Separators]
                : n \in 0..MaxCandidates } }

InitKw ==
    /\ BatchIdle
    /\ FilterIdle
    /\ SynthIdle
    /\ response \in Responses
    /\ max_count \in 1..MaxCount
    /\ kwPc = "called"
    /\ keywords = <<>>
    /\ keywords_gpt = <<>>
    /\ SearchIdle
    /\ UiIdle
    /\ RendererIdle

NextKw == ExtractKeywords

SpecKw == InitKw /\ [][NextKw]_vars

ExampleResponse ==
    <<"1", ".", " ", "A", "\n", "2", ")", " ", "B", "\n", "C">>

\* C11: the answer "1. A\n2) B\nC" with max_count 3 yields exactly
\* <<"A", "B", "C">>: both ordinal forms are stripped, the order is kept.
C11_OrdinalMarkersStripped ==
    (kwPc = "returned" /\ response = ExampleResponse /\ max_count = 3)
        => keywords = << <<"A">>, <<"B">>, <<"C">> >>

\* C12: for every non-empty answer the returned list has at most max_count
\* entries and none of them is the empty string.
C12_AtMostMaxCountNoEmpty ==
    kwPc = "returned"
        => /\ Len(keywords) <= max_count
           /\ \A k \in 1..Len(keywords) : keywords[k] # <<>>

(***************************************************************************)
(* The news search: what search_news_naver makes of the HTTP response.     *)
(***************************************************************************)
MaxResults == 2         \* items in one search response

StatusCodes == {200, 201, 204, 301, 304, 400, 401, 404, 429, 500, 503}
Is2xx(code) == code >= 200 /\ code <= 299

ItemLists == UNION { [1..n -> {"news"}] : n \in 0..MaxResults }

\* a body that is no JSON, a JSON object without "items", or one with them
Bodies ==
    {NoBody, [kind |-> "no_items_key", items |-> <<>>]}
        \cup { [kind |-> "items", items |-> l] : l \in ItemLists }

\* response.raise_for_status(): HTTPError for the 4xx and 5xx codes only
raise_for_status(code) == code >= 400 /\ code <= 599

\* response.json()["items"] raises unless the body is JSON with that key
HasItems(b) == b.kind = "items"

search_news_naver(impl, code, b) ==
    IF code = 0 THEN [pc |-> "raised", items |-> <<>>]
    ELSE IF impl = "news_workflow"
    THEN IF raise_for_status(code) \/ ~HasItems(b)
         THEN [pc |-> "raised", items |-> <<>>]
         ELSE [pc |-> "returned", items |-> b.items]
    ELSE IF code = 200
         THEN IF HasItems(b)
              THEN [pc |-> "returned", items |-> b.items]
              ELSE [pc |-> "raised", items |-> <<>>]
         ELSE [pc |-> "returned", items |-> <<>>]

SearchReturns ==
    /\ searchPc = "called"
    /\ LET r == search_news_naver(search_impl, status_code, body)
       IN  /\ searchPc' = r.pc
           /\ search_items' = r.items
    /\ UNCHANGED <<search_impl, status_code, body>>
    /\ UNCHANGED offSearchVars

InitSearch ==
    /\ BatchIdle
    /\ FilterIdle
    /\ SynthIdle
    /\ KwIdle
    /\ search_impl \in {"news_workflow", "news"}
    /\ \/ status_code = 0 /\ body = NoBody
       \/ status_code \in StatusCodes /\ body \in Bodies
    /\ searchPc = "called"
    /\ search_items = <<>>
    /\ UiIdle
    /\ RendererIdle

NextSearch == SearchReturns

SpecSearch == InitSearch /\ [][NextSearch]_vars

\* C13: a response that is not 2xx ends in an error, never in a list; the
\* empty list is returned only for a successful response without results.
C13_Non2xxIsAnError ==
    searchPc \in {"returned", "raised"}
        => /\ ~Is2xx(status_code) => searchPc = "raised"
           /\ (searchPc = "returned" /\ search_items = <<>>)
                  => (Is2xx(status_code) /\ body.items = <<>>)

(***************************************************************************)
(* The wizard from its first page on.  The batch run is known here by what *)
(* it hands to the script only.                                            *)
(***************************************************************************)
MaxKeywords == 2        \* length of an extracted list of keywords

\* two keywords are enough to tell a list with a keyword twice from one
\* without, and an edited list from the extracted one
KeywordNames == {1, 2}
KeywordLists == UNION { [1..n -> KeywordNames] : n \in 0..MaxKeywords }

\* extract_initial_article_content and the keyword extraction: one of them
\* raises, or the list of keywords is returned
KeywordOutcomes ==
    {[raised |-> TRUE, keywords |-> <<>>]}
        \cup { [raised |-> FALSE, keywords |-> l] : l \in KeywordLists }

\* input_form was submitted ("1. extract keywords")
SubmitInputForm(link, dates_ok, o) ==
    /\ uiPc = "idle"
    /\ IF ~link
       THEN /\ uiLast' = Event("input_form", link, dates_ok, "warning")
            /\ UNCHANGED session_state
       ELSE IF ~dates_ok
       THEN /\ uiLast' = Event("input_form", link, dates_ok, "error")
            /\ UNCHANGED session_state
       ELSE IF o.raised
       THEN /\ uiLast' = Event("input_form", link, dates_ok, "exception")
            /\ session_state' = [session_state EXCEPT !.step = "initial"]
       ELSE /\ uiLast' = Event("input_form", link, dates_ok, "ok")
            /\ session_state' = [session_state EXCEPT
                                    !.keywords = o.keywords,
                                    !.step = "keywords_ready",
                                    !.final_keywords = o.keywords]
    /\ UNCHANGED uiPc
    /\ UNCHANGED offUiVars

Elements(q) == {q[k] : k \in 1..Len(q)}

\* the delete buttons are keyed by keyword: with a keyword twice in the list
\* the second button raises a duplicate-key error and the script ends there
KeywordPageRendered ==
    /\ session_state.step = "keywords_ready"
    /\ uiPc = "idle"
    /\ Cardinality(Elements(session_state.final_keywords))
           = Len(session_state.final_keywords)

add_keyword(new_kw) ==
    /\ KeywordPageRendered
    /\ session_state' =
           IF new_kw \notin Elements(session_state.final_keywords)
           THEN [session_state EXCEPT
                    !.final_keywords = Append(session_state.final_keywords,
                                              new_kw)]
           ELSE session_state
    /\ uiLast' = Event("add_keyword", FALSE, FALSE, "ok")
    /\ UNCHANGED uiPc
    /\ UNCHANGED offUiVars

\* list.remove: the first occurrence
RECURSIVE Remove(_, _)
Remove(q, x) ==
    IF q = <<>> THEN <<>>
    ELSE IF Head(q) = x THEN Tail(q)
    ELSE <<Head(q)>> \o Remove(Tail(q), x)

delete_keyword(keyword_to_delete) ==
    /\ session_state.step = "keywords_ready"
    /\ uiPc = "idle"
    /\ keyword_to_delete \in Elements(session_state.final_keywords)
    /\ session_state' =
           [session_state EXCEPT
               !.final_keywords = Remove(session_state.final_keywords,
                                         keyword_to_delete)]
    /\ uiLast' = Event("delete_keyword", FALSE, FALSE, "ok")
    /\ UNCHANGED uiPc
    /\ UNCHANGED offUiVars

\* what happens in process_form before the batch run is started
BeforeRun == {"search_raised", "filter_raised", "no_items", "run"}

\* process_form was submitted ("2. generate the report")
ProcessFormStart(before) ==
    /\ KeywordPageRendered
    /\ IF session_state.final_keywords = <<>> \/ before = "no_items"
       THEN /\ uiLast' = Event("process_form", FALSE, FALSE, "stop")
            /\ UNCHANGED <<session_state, uiPc>>
       ELSE IF before \in {"search_raised", "filter_raised"}
       THEN /\ uiLast' = Event("process_form", FALSE, FALSE, "exception")
            /\ session_state' = [session_state EXCEPT !.step = "initial"]
            /\ UNCHANGED uiPc
       ELSE /\ uiLast' = Event("process_form", FALSE, FALSE, "running")
            /\ uiPc' = "running"
            /\ UNCHANGED session_state
    /\ UNCHANGED offUiVars

\* The batch run as the script sees it: what run_analysis_and_synthesis_async
\* hands back for a list, given what each task ends with, the order in which
\* the tasks complete, and what the synthesizer does.

\* what process_article_task can end with for item i of the list
TaskResults(items, i) ==
    LET link == PreferredLink(items[i])
        failed(reason) == [status |-> "failed", reason |-> reason,
                           item |-> i, link |-> link]
    IN  IF link = None
        THEN {[status |-> "raised", item |-> i]}
        ELSE {failed("crawl_failed"), failed("summary_failed"),
              IF items[i].hasTitle
              THEN [status |-> "success", item |-> i, link |-> link]
              ELSE [status |-> "raised", item |-> i]}

\* synthesize_final_report raises, or returns the stripped text
SynthOutcomes ==
    {[raised |-> TRUE, report |-> None]}
        \cup { [raised |-> FALSE, report |-> r] : r \in Reports }

\* the fan-in loop from the k-th completed task on, then the rest of the run
RECURSIVE RunFrom(_, _, _, _, _, _)
RunFrom(order, results, k, successes, failures, synth) ==
    IF k <= Len(order)
    THEN LET result == results[order[k]]
         IN  IF result.status = "raised" THEN RunRaised
             ELSE IF result.status = "success"
             THEN RunFrom(order, results, k + 1, Append(successes, result),
                          failures, synth)
             ELSE RunFrom(order, results, k + 1, successes,
                          Append(failures, result), synth)
    ELSE IF successes = <<>>
    THEN [kind |-> "returned", report |-> None, successes |-> <<>>,
          failures |-> <<>>]
    ELSE IF synth.raised THEN RunRaised
    ELSE [kind |-> "returned", report |-> synth.report,
          successes |-> successes, failures |-> failures]

CompletionOrders(n) ==
    { order \in [1..n -> 1..n] :
          \A a, b \in 1..n : order[a] = order[b] => a = b }

RunOutcomesOf(items) ==
    LET n == Len(items)
    IN  { RunFrom(order, results, 1, <<>>, <<>>, synth) :
              order \in CompletionOrders(n),
              results \in { r \in [1..n -> UNION { TaskResults(items, i) :
                                                      i \in 1..n }] :
                               \A i \in 1..n : r[i] \in TaskResults(items, i) },
              synth \in SynthOutcomes }

\* the lists the script hands to the run: not empty (st.stop() otherwise),
\* of items with a link and a title and of items without a link
RunItemKinds ==
    { [link |-> "naver", originallink |-> "other", hasTitle |-> TRUE],
      [link |-> "absent", originallink |-> "absent", hasTitle |-> TRUE] }

RunOutcomes ==
    UNION { RunOutcomesOf(items) :
                items \in UNION { [1..n -> RunItemKinds] : n \in 1..MaxItems } }

ProcessFormRunReturns(o) ==
    /\ ProcessFormAfterRun(o)
    /\ UNCHANGED offUiVars

InitUI ==
    /\ BatchIdle
    /\ FilterIdle
    /\ SynthIdle
    /\ KwIdle
    /\ SearchIdle
    /\ UiIdle
    /\ RendererIdle

NextUI ==
    \/ \E link, dates_ok \in BOOLEAN : \E o \in KeywordOutcomes :
           SubmitInputForm(link, dates_ok, o)
    \/ \E new_kw \in KeywordNames : add_keyword(new_kw)
    \/ \E kw \in KeywordNames : delete_keyword(kw)
    \/ \E before \in BeforeRun : ProcessFormStart(before)
    \/ \E o \in RunOutcomes : ProcessFormRunReturns(o)

SpecUI == InitUI /\ [][NextUI]_vars

\* C19: step takes the three values only; it becomes "keywords_ready" only
\* by a keyword extraction that succeeded on valid input, and "done" only
\* from "keywords_ready" by a report run that returned a report; every
\* exception in the two handlers sets it to "initial"; "done" is never
\* reached from "initial".
C19_StepMachine ==
    /\ session_state.step \in Steps
    /\ [][/\ session_state'.step \in Steps
          /\ (session_state'.step = "keywords_ready"
                  /\ session_state.step # "keywords_ready")
                 => uiLast' = Event("input_form", TRUE, TRUE, "ok")
          /\ (session_state'.step = "done" /\ session_state.step # "done")
                 => /\ session_state.step = "keywords_ready"
                    /\ uiLast' = Event("process_form", FALSE, FALSE, "ok")
                    /\ ~Falsy(session_state'.final_report)
          /\ uiLast'.result = "exception" => session_state'.step = "initial"
          /\ session_state.step = "initial" => session_state'.step # "done"
         ]_vars

\* what the done page shows and renders for download
Stored ==
    <<session_state.final_report, session_state.successful_results,
      session_state.failed_results>>

\* C22: whenever step is "done", the stored report is not empty and the
\* stored list of successes is not empty; and the report and the two lists
\* are only ever stored together, on entering "done", as the tuple one
\* batch run returned.
C22_DoneHoldsOneRun ==
    /\ [](session_state.step = "done"
             => /\ ~Falsy(session_state.final_report)
                /\ session_state.successful_results # <<>>)
    /\ [][(Stored' # Stored
              \/ (session_state'.step = "done" /\ session_state.step # "done"))
             => /\ session_state'.step = "done"
                /\ \E o \in RunOutcomes :
                       /\ o.kind = "returned"
                       /\ Stored' = <<o.report, o.successes, o.failures>>
         ]_vars

\* the done page of a run with a failure, shown again after the first form
\* was submitted without a link
C22_Witness ==
    /\ session_state.step = "done"
    /\ session_state.failed_results # <<>>
    /\ uiLast = Event("input_form", FALSE, TRUE, "warning")

\* a report was stored after keywords were extracted and edited
C19_Witness ==
    /\ session_state.step = "done"
    /\ session_state.final_report = "report"
    /\ session_state.final_keywords # session_state.keywords

(***************************************************************************)
(* extract_news_source: the publisher's name from the host of the link.    *)
(* A host is the sequence of its labels: www.mk.co.kr is                   *)
(* <<"www", "mk", "co", "kr">>.                                            *)
(***************************************************************************)
MaxSubLabels == 2       \* labels in front of the registrable domain

\* source_map of news_workflow.py and of news.py
source_map(impl) ==
    IF impl = "news_workflow"
    THEN [k \in {"chosun", "donga", "mk", "joongang", "hani", "yna",
                 "inews24", "fnnews", "naver"} |->
            CASE k = "chosun" -> "Chosun Ilbo"
              [] k = "donga" -> "Dong-A Ilbo"
              [] k = "mk" -> "Maeil Business"
              [] k = "joongang" -> "JoongAng Ilbo"
              [] k = "hani" -> "Hankyoreh"
              [] k = "yna" -> "Yonhap News"
              [] k = "inews24" -> "iNews24"
              [] k = "fnnews" -> "Financial News"
              [] k = "naver" -> "Naver News"]
    ELSE [k \in {"n", "chosun", "donga", "mk", "joongang", "hani", "yna",
                 "inews24"} |->
            CASE k = "n" -> "Naver"
              [] k = "chosun" -> "Chosun Ilbo"
              [] k = "donga" -> "Dong-A Ilbo"
              [] k = "mk" -> "Maeil Business"
              [] k = "joongang" -> "JoongAng Ilbo"
              [] k = "hani" -> "Hankyoreh"
              [] k = "yna" -> "Yonhap News"
              [] k = "inews24" -> "iNews24"]

\* netloc.replace("www.", ""): a label "www" goes with the dot after it
RECURSIVE remove_www(_)
remove_www(labels) ==
    IF labels = <<>> THEN <<>>
    ELSE IF Head(labels) = "www" /\ Len(labels) > 1
    THEN remove_www(Tail(labels))
    ELSE <<Head(labels)>> \o remove_www(Tail(labels))

\* "".split(".") is [""]
split_labels(labels) == IF labels = <<>> THEN <<"">> ELSE labels

extract_news_source(impl, host) ==
    LET parts == split_labels(remove_www(host))
        domain == IF impl = "news_workflow"
                  THEN IF Len(parts) > 1 THEN parts[Len(parts) - 1]
                                         ELSE parts[1]
                  ELSE parts[1]
    IN  IF domain \in DOMAIN source_map(impl)
        THEN source_map(impl)[domain]
        ELSE domain

ExtractNewsSource ==
    /\ srcPc = "called"
    /\ srcPc' = "returned"
    /\ source_name' = extract_news_source(source_impl, netloc)
    /\ UNCHANGED <<source_impl, netloc>>
    /\ UNCHANGED docVars
    /\ UNCHANGED offRendererVars

\* the publishers' domains, and two domains of no publisher in the table
RegistrableDomains ==
    { <<"chosun", "com">>, <<"donga", "com">>, <<"mk", "co", "kr">>,
      <<"joongang", "co", "kr">>, <<"hani", "co", "kr">>,
      <<"yna", "co", "kr">>, <<"inews24", "com">>, <<"fnnews", "com">>,
      <<"naver", "com">>, <<"example", "com">>, <<"example", "co", "kr">> }

SubLabels == {"www", "news", "n"}
SubDomains == UNION { [1..n -> SubLabels] : n \in 0..MaxSubLabels }
Hosts == { sub \o reg : sub \in SubDomains, reg \in RegistrableDomains }

InitSrc ==
    /\ BatchIdle
    /\ FilterIdle
    /\ SynthIdle
    /\ KwIdle
    /\ SearchIdle
    /\ UiIdle
    /\ DocIdle
    /\ source_impl \in {"news_workflow", "news"}
    /\ netloc \in Hosts
    /\ srcPc = "called"
    /\ source_name = ""

NextSrc == ExtractNewsSource

SpecSrc == InitSrc /\ [][NextSrc]_vars

\* the label in front of the public suffix (com, co.kr)
RegistrableLabel(host) ==
    IF SubSeq(host, Len(host) - 1, Len(host)) = <<"co", "kr">>
    THEN host[Len(host) - 2]
    ELSE host[Len(host) - 1]

\* C16: the registrable domain of the link goes through the table: the
\* domain of a publisher in the table, with or without www or another
\* subdomain, gives the publisher's name, and any other domain gives its
\* registrable label.
C16_PublisherOfRegistrableDomain ==
    srcPc = "returned"
        => LET label == RegistrableLabel(netloc)
           IN  source_name = IF label \in DOMAIN source_map(source_impl)
                             THEN source_map(source_impl)[label]
                             ELSE label

(***************************************************************************)
(* save_summary_to_word: the document made of the report and the list of   *)
(* successes.  A line of the report is known by how it starts, a document  *)
(* is the sequence of its paragraphs.                                      *)
(***************************************************************************)
MaxLines == 2           \* lines of the report text
MaxRefs == 2            \* results in the success list
MaxCalls == 2           \* calls of save_summary_to_word
MaxToday == 2           \* days the clock runs through

\* how a stripped line starts: nothing left, the rule, a heading mark, a
\* bullet mark, or text
LineStarts == {"", "---", "### ", "## ", "# ", "* ", "text"}
ReportLines == { [start |-> st, text |-> "line"] : st \in LineStarts }

Paragraph(style, text, day) == [style |-> style, text |-> text, day |-> day]

\* the if-chain over one line; <<>> for a line that is skipped
RenderLine(line) ==
    IF line.start = "" \/ line.start = "---" THEN <<>>
    ELSE IF line.start = "### " THEN <<Paragraph("bold 12", line.text, 0)>>
    ELSE IF line.start = "## " THEN <<Paragraph("bold 14", line.text, 0)>>
    ELSE IF line.start = "# " THEN <<Paragraph("bold 16", line.text, 0)>>
    ELSE IF line.start = "* " THEN <<Paragraph("List Bullet", line.text, 0)>>
    ELSE <<Paragraph("Normal", line.text, 0)>>

RECURSIVE RenderLines(_)
RenderLines(lines) ==
    IF lines = <<>> THEN <<>>
    ELSE RenderLine(Head(lines)) \o RenderLines(Tail(lines))

\* extract_pubdate_from_item: the day of a well-formed pubDate, else None (0)
extract_pubdate_from_item(item) ==
    LET dt == strptime(item.pubDate)
    IN  IF dt.error = "none" THEN dt.day ELSE 0

Reference(idx, result) ==
    [style |-> "reference", idx |-> idx, url |-> result.link,
     text |-> result.title,
     origin |-> extract_news_source("news_workflow", result.link),
     pubdate |-> extract_pubdate_from_item(result.original_item)]

\* the paragraphs of the document saved on the given day
Render(text, results, day) ==
    << Paragraph("title", "AI news report", 0),
       Paragraph("date", "written on", day),
       Paragraph("Normal", "---", 0) >>
        \o RenderLines(text)
        \o << Paragraph("page break", "", 0),
              Paragraph("bold 16", "references", 0) >>
        \o [k \in 1..Len(results) |-> Reference(k, results[k])]

\* one call: today_str is taken from the clock, the arguments are only read
SaveSummaryToWord ==
    /\ Len(documents) < MaxCalls
    /\ documents' = Append(documents,
                           [day |-> today, results |-> doc_results,
                            content |-> Render(summary_text, doc_results,
                                               today)])
    /\ UNCHANGED <<summary_text, doc_results, today>>
    /\ UNCHANGED srcVars
    /\ UNCHANGED offRendererVars

\* midnight passes
Tick ==
    /\ today < MaxToday
    /\ today' = today + 1
    /\ UNCHANGED <<summary_text, doc_results, documents>>
    /\ UNCHANGED srcVars
    /\ UNCHANGED offRendererVars

ResultKinds ==
    { [link |-> h, title |-> "title",
       original_item |-> [pubDate |-> pd]] :
          h \in {<<"www", "mk", "co", "kr">>, <<"n", "news", "naver", "com">>},
          pd \in {[type |-> "NoneType"],
                  [type |-> "str", form |-> "rfc822", day |-> 1, hour |-> 0]} }

InitDoc ==
    /\ BatchIdle
    /\ FilterIdle
    /\ SynthIdle
    /\ KwIdle
    /\ SearchIdle
    /\ UiIdle
    /\ SrcIdle
    /\ summary_text \in UNION { [1..n -> ReportLines] : n \in 0..MaxLines }
    /\ doc_results \in UNION { [1..n -> ResultKinds] : n \in 0..MaxRefs }
    /\ today = 1
    /\ documents = <<>>

NextDoc == SaveSummaryToWord \/ Tick

SpecDoc == InitDoc /\ [][NextDoc]_vars

\* C17: the document is a function of the report text and the success list
\* alone: any two calls with the same arguments give the same content,
\* whenever they are made, and the list is after every call what it was.
C17_RendererIsPure ==
    \A i, j \in 1..Len(documents) :
        /\ documents[i].content = documents[j].content
        /\ documents[i].results = doc_results

(***************************************************************************)
(* The semaphore under load: a list longer than the semaphore admits.      *)
(* The tasks start and take their slot exactly as above; what the body     *)
(* does after its first call is collapsed into TaskEnds, because every     *)
(* path out of the `async with` block releases the slot in the same way.   *)
(***************************************************************************)
\* the rest of the body of task i, whatever its outcome: the block is left
TaskEnds(i) ==
    /\ pc[i] \in {"fast", "fallback", "summarize"}
    /\ AllStarted
    /\ ReleaseSlot(i, "done")
    /\ UNCHANGED <<filtered_items, taskResult, hist, doneQ, mainPc,
                   successful_results, failed_results, synthCalls, returned>>
    /\ UNCHANGED cbVars
    /\ UNCHANGED offBatchVars

SemItemList ==
    [i \in 1..SemItems |->
        IF i = SemItems
        THEN [link |-> "absent", originallink |-> "absent", hasTitle |-> TRUE]
        ELSE IF i % 2 = 1
        THEN [link |-> "naver", originallink |-> "other", hasTitle |-> TRUE]
        ELSE [link |-> "absent", originallink |-> "other", hasTitle |-> TRUE]]

InitSem ==
    /\ BatchInit(SemItemList)
    /\ progress_callback = TRUE
    /\ FilterIdle /\ SynthIdle /\ KwIdle /\ SearchIdle /\ UiIdle
    /\ RendererIdle

NextSem ==
    \/ \E i \in Tasks : StartTask(i)
    \/ \E i \in Tasks : BodyBegin(i)
    \/ \E i \in Tasks : TaskEnds(i)

SpecSem == InitSem /\ [][NextSem]_vars

\* tasks with an external call outstanding (fast scrape, fallback, summarize)
OutstandingCalls == {i \in Tasks : pc[i] \in {"fast", "fallback", "summarize"}}

\* C4: at every instant at most SEMAPHORE_LIMIT (10) pipelines have an
\* outstanding external call, whatever the length of the list and the order
\* in which the calls complete.
C4_AtMostLimitInFlight == Cardinality(OutstandingCalls) <= SEMAPHORE_LIMIT

\* ten calls are outstanding, one of them by a task that had to queue for
\* its slot, and a further task is still queued
C4_Witness ==
    /\ Cardinality(OutstandingCalls) = SEMAPHORE_LIMIT
    /\ \E i \in OutstandingCalls : i > SEMAPHORE_LIMIT
    /\ waiters # <<>>

====
